---- MODULE Spec2Model ----
(***************************************************************************)
(* Chemical reaction networks (crn.py): the parser of reaction equations,  *)
(* the CRN class (sorted reaction list, species, text rendering) and the   *)
(* mass-action rate equation it renders.                                   *)
(*                                                                         *)
(* A Python str is modelled as a sequence of one-character strings, and    *)
(* ordered as Python 2 orders it, by the code points of its characters.    *)
(* A tuple is a TLA+ sequence; a Term is <<species, n>>, a Complex is a    *)
(* sequence of Terms and a Reaction is <<src, dst>>.                       *)
(***************************************************************************)
EXTENDS Integers, Sequences, FiniteSets, Bags, TLC

VARIABLES equations, pc, parsed, reactions, out

vars == <<equations, pc, parsed, reactions, out>>

(***************************************************************************)
(* Characters and strings                                                  *)
(***************************************************************************)

\* The code point of every character the inputs and the renderings use.
Ord ==
    ("\n" :> 10) @@ (" " :> 32) @@ ("(" :> 40) @@ (")" :> 41) @@ ("*" :> 42) @@
    ("+" :> 43) @@ ("-" :> 45) @@ ("/" :> 47) @@
    ("0" :> 48) @@ ("1" :> 49) @@ ("2" :> 50) @@ ("3" :> 51) @@ ("4" :> 52) @@
    ("5" :> 53) @@ ("6" :> 54) @@ ("7" :> 55) @@ ("8" :> 56) @@ ("9" :> 57) @@
    ("<" :> 60) @@ ("=" :> 61) @@ (">" :> 62) @@ ("^" :> 94) @@
    ("a" :> 97) @@ ("b" :> 98) @@ ("c" :> 99) @@ ("d" :> 100) @@ ("e" :> 101) @@
    ("t" :> 116) @@ ("x" :> 120) @@ ("y" :> 121) @@ ("z" :> 122)

\* c.isdigit()
isdigit(c) == Ord[c] >= Ord["0"] /\ Ord[c] <= Ord["9"]

\* the characters str.strip() removes
isspace(c) == c \in {" ", "\n"}

\* s[i:] for a 1-based i
Drop(s, i) == SubSeq(s, i, Len(s))

\* s.startswith(p)
startswith(s, p) == Len(p) <= Len(s) /\ SubSeq(s, 1, Len(p)) = p

\* s.find(sep) as a 1-based position, 0 when sep does not occur
find(s, sep) ==
    LET at == {i \in 1..(Len(s) - Len(sep) + 1) : SubSeq(s, i, i + Len(sep) - 1) = sep}
    IN  IF at = {} THEN 0 ELSE CHOOSE i \in at : \A j \in at : i <= j

\* sep in s
contains(s, sep) == find(s, sep) # 0

\* s.split(sep, 1)
split1(s, sep) ==
    LET i == find(s, sep) IN
    IF i = 0 THEN <<s>>
    ELSE <<SubSeq(s, 1, i - 1), Drop(s, i + Len(sep))>>

\* s.split(sep)
RECURSIVE split(_, _)
split(s, sep) ==
    LET i == find(s, sep) IN
    IF i = 0 THEN <<s>>
    ELSE <<SubSeq(s, 1, i - 1)>> \o split(Drop(s, i + Len(sep)), sep)

\* s.lstrip(), s.rstrip(), s.strip()
RECURSIVE lstrip(_)
lstrip(s) == IF s # <<>> /\ isspace(Head(s)) THEN lstrip(Tail(s)) ELSE s

RECURSIVE rstrip(_)
rstrip(s) ==
    IF s # <<>> /\ isspace(s[Len(s)]) THEN rstrip(SubSeq(s, 1, Len(s) - 1)) ELSE s

strip(s) == rstrip(lstrip(s))

\* sep.join(parts)
RECURSIVE join(_, _)
join(sep, parts) ==
    IF parts = <<>> THEN <<>>
    ELSE IF Len(parts) = 1 THEN parts[1]
    ELSE parts[1] \o sep \o join(sep, Tail(parts))

\* ''.join(itertools.takewhile(lambda c: c.isdigit(), s))
RECURSIVE takewhile_isdigit(_)
takewhile_isdigit(s) ==
    IF s # <<>> /\ isdigit(Head(s))
    THEN <<Head(s)>> \o takewhile_isdigit(Tail(s))
    ELSE <<>>

\* ''.join(itertools.dropwhile(lambda c: c.isdigit(), s))
RECURSIVE dropwhile_isdigit(_)
dropwhile_isdigit(s) ==
    IF s # <<>> /\ isdigit(Head(s)) THEN dropwhile_isdigit(Tail(s)) ELSE s

\* int(s) for a non-empty run of decimal digits
RECURSIVE int(_)
int(s) ==
    IF s = <<>> THEN 0
    ELSE 10 * int(SubSeq(s, 1, Len(s) - 1)) + (Ord[s[Len(s)]] - Ord["0"])

\* '%s' % n for an integer n
Digit(d) == CHOOSE c \in DOMAIN Ord : Ord[c] = Ord["0"] + d

RECURSIVE NatStr(_)
NatStr(n) ==
    IF n < 10 THEN <<Digit(n)>> ELSE NatStr(n \div 10) \o <<Digit(n % 10)>>

str(n) == IF n < 0 THEN <<"-">> \o NatStr(-n) ELSE NatStr(n)

(***************************************************************************)
(* Python's order on str, on tuples and on lists of tuples                 *)
(***************************************************************************)

\* cmp(a, b) on str: -1, 0 or 1
RECURSIVE StrCmp(_, _)
StrCmp(a, b) ==
    IF a = <<>> /\ b = <<>> THEN 0
    ELSE IF a = <<>> THEN -1
    ELSE IF b = <<>> THEN 1
    ELSE IF Ord[Head(a)] < Ord[Head(b)] THEN -1
    ELSE IF Ord[Head(a)] > Ord[Head(b)] THEN 1
    ELSE StrCmp(Tail(a), Tail(b))

IntCmp(m, n) == IF m < n THEN -1 ELSE IF m > n THEN 1 ELSE 0

\* cmp on (species, n) tuples
TermCmp(t, u) ==
    IF StrCmp(t[1], u[1]) # 0 THEN StrCmp(t[1], u[1]) ELSE IntCmp(t[2], u[2])

\* cmp on tuples of (species, n) tuples
RECURSIVE ComplexCmp(_, _)
ComplexCmp(a, b) ==
    IF a = <<>> /\ b = <<>> THEN 0
    ELSE IF a = <<>> THEN -1
    ELSE IF b = <<>> THEN 1
    ELSE IF TermCmp(Head(a), Head(b)) # 0 THEN TermCmp(Head(a), Head(b))
    ELSE ComplexCmp(Tail(a), Tail(b))

\* cmp on (src, dst) tuples
ReactionCmp(r, q) ==
    IF ComplexCmp(r[1], q[1]) # 0 THEN ComplexCmp(r[1], q[1])
    ELSE ComplexCmp(r[2], q[2])

\* sorted(keys) with the comparison reversed
RECURSIVE sorted_keys_descending(_)
sorted_keys_descending(S) ==
    IF S = {} THEN <<>>
    ELSE LET m == CHOOSE x \in S : \A y \in S : StrCmp(x, y) >= 0
         IN  <<m>> \o sorted_keys_descending(S \ {m})

\* sorted(keys) for the keys of a dict whose keys are str
RECURSIVE sorted_keys(_)
sorted_keys(S) ==
    IF S = {} THEN <<>>
    ELSE LET m == CHOOSE x \in S : \A y \in S : StrCmp(x, y) <= 0
         IN  <<m>> \o sorted_keys(S \ {m})

\* sorted(xs) for a list of (species, n) tuples: a stable insertion sort
RECURSIVE InsertTerm(_, _)
InsertTerm(x, xs) ==
    IF xs = <<>> THEN <<x>>
    ELSE IF TermCmp(x, Head(xs)) < 0 THEN <<x>> \o xs
    ELSE <<Head(xs)>> \o InsertTerm(x, Tail(xs))

RECURSIVE sorted_terms(_)
sorted_terms(xs) ==
    IF xs = <<>> THEN <<>>
    ELSE InsertTerm(xs[Len(xs)], sorted_terms(SubSeq(xs, 1, Len(xs) - 1)))

\* sorted(xs) for a list of (src, dst) tuples
RECURSIVE InsertReaction(_, _)
InsertReaction(x, xs) ==
    IF xs = <<>> THEN <<x>>
    ELSE IF ReactionCmp(x, Head(xs)) < 0 THEN <<x>> \o xs
    ELSE <<Head(xs)>> \o InsertReaction(x, Tail(xs))

RECURSIVE sorted_reactions(_)
sorted_reactions(xs) ==
    IF xs = <<>> THEN <<>>
    ELSE InsertReaction(xs[Len(xs)], sorted_reactions(SubSeq(xs, 1, Len(xs) - 1)))

\* the concatenation of a list of lists
RECURSIVE Flatten(_)
Flatten(xss) == IF xss = <<>> THEN <<>> ELSE Head(xss) \o Flatten(Tail(xss))

(***************************************************************************)
(* The parser                                                              *)
(***************************************************************************)

\* parse_term: the species left after the leading digits of the stripped text
term_species(s) == dropwhile_isdigit(strip(s))

\* parse_term: the leading digits of the stripped text
term_coeff(s) == takewhile_isdigit(strip(s))

\* parse_term without its assert
parse_term_never_raises(s) == FALSE

\* parse_term raises AssertionError: assert species
parse_term_raises(s) == term_species(s) = <<>>

parse_term(s) ==
    <<term_species(s), IF term_coeff(s) # <<>> THEN int(term_coeff(s)) ELSE 1>>

\* parse_complex raises when parse_term does on one of the pieces
parse_complex_raises(complex) ==
    \E i \in DOMAIN split(complex, <<"+">>) :
        parse_term_raises(split(complex, <<"+">>)[i])

parse_complex(complex) ==
    LET pieces == split(complex, <<"+">>) IN
    sorted_terms([i \in DOMAIN pieces |-> parse_term(pieces[i])])

\* parse_equation: the arrow it splits on
arrow_of(s) ==
    IF contains(s, <<"<", "-", ">">>) THEN <<"<", "-", ">">> ELSE <<"-", ">">>

\* chop raises AssertionError: assert sep in s
chop_raises(s, sep) == ~contains(s, sep)

chop(s, sep) == split1(s, sep)

\* parse_equation raises when chop does, or parse_complex on either side
parse_equation_raises(s) ==
    \/ chop_raises(s, arrow_of(s))
    \/ \E i \in DOMAIN chop(s, arrow_of(s)) :
           parse_complex_raises(chop(s, arrow_of(s))[i])

\* parse_equation returning the forward Reaction alone
parse_equation_forward_only(s) ==
    LET complexes == chop(s, arrow_of(s))
    IN  <<<<parse_complex(complexes[1]), parse_complex(complexes[2])>>>>

parse_equation(s) ==
    LET arrow == arrow_of(s)
        complexes == chop(s, arrow)
        src == parse_complex(complexes[1])
        dst == parse_complex(complexes[2])
    IN  IF arrow = <<"<", "-", ">">>
        THEN <<<<src, dst>>, <<dst, src>>>>
        ELSE <<<<src, dst>>>>

(***************************************************************************)
(* Rendering                                                               *)
(***************************************************************************)

\* mul with the coefficient after the factor
mul_coefficient_last(s, n) == IF n = 1 THEN s ELSE s \o <<"*">> \o str(n)

mul(s, n) == IF n = 1 THEN s ELSE str(n) \o <<"*">> \o s

pow(s, n) == IF n = 1 THEN s ELSE s \o <<"^">> \o str(n)

show_complex(complex) ==
    join(<<" ", "+", " ">>,
         [i \in DOMAIN complex |->
             (IF complex[i][2] = 1 THEN <<>> ELSE str(complex[i][2]))
                 \o complex[i][1]])

show_reaction(r) ==
    show_complex(r[1]) \o <<" ", "-", ">", " ">> \o show_complex(r[2])

\* total without its filter on coeff != 0
total_keeping_zero(terms) ==
    LET keys == sorted_keys(DOMAIN terms)
    IN  join(<<" ", "+", " ">>,
             [i \in DOMAIN keys |-> mul(keys[i], terms[keys[i]])])

\* total(terms), terms a dict from factor to coefficient
total(terms) ==
    LET keys == sorted_keys(DOMAIN terms)
        kept == SelectSeq(keys, LAMBDA f : terms[f] # 0)
    IN  join(<<" ", "+", " ">>,
             [i \in DOMAIN kept |-> mul(kept[i], terms[kept[i]])])

(***************************************************************************)
(* class CRN                                                               *)
(***************************************************************************)

\* CRN.__init__ without sorted()
CRN_init_unsorted(rs) == rs

\* CRN.__init__: self.reactions
CRN_init(rs) == sorted_reactions(rs)

\* CRN.__repr__
CRN_repr(rs) == join(<<"\n">>, [i \in DOMAIN rs |-> show_reaction(rs[i])])

\* CRN.species over src alone
CRN_species_of_sources(rs) ==
    UNION {{rs[i][1][j][1] : j \in DOMAIN rs[i][1]} : i \in DOMAIN rs}

\* CRN.species
CRN_species(rs) ==
    UNION {{(rs[i][1] \o rs[i][2])[j][1] : j \in DOMAIN (rs[i][1] \o rs[i][2])} :
              i \in DOMAIN rs}

\* rate_equation: k, the rate constant of every reaction
k == 1

\* rate_equation: the factor of a reaction with source complex src
factor_of(src) ==
    LET ts == sorted_terms(src) IN
    <<"(">> \o join(<<" ">>, [i \in DOMAIN ts |-> pow(ts[i][1], ts[i][2])])
            \o <<")">>

\* rate_equation.add: rhses after add(sym, factor, coeff); a dict is a
\* function on its keys and {} is the function on no key. rhses.setdefault
\* gives sym the dict {} when it has none, and terms.get(factor, 0) is 0 when
\* factor is no key of terms
add(rhses, sym, factor, coeff) ==
    IF sym \in DOMAIN rhses
    THEN [rhses EXCEPT ![sym] =
             IF factor \in DOMAIN @ THEN [@ EXCEPT ![factor] = @ + coeff]
             ELSE (factor :> (0 + coeff)) @@ @]
    ELSE (sym :> (factor :> (0 + coeff))) @@ rhses

\* for sym, n in complex: add(sym, factor, sign * n * k), from rhses
RECURSIVE add_complex(_, _, _, _)
add_complex(rhses, complex, factor, sign) ==
    IF complex = <<>> THEN rhses
    ELSE add(add_complex(rhses, SubSeq(complex, 1, Len(complex) - 1), factor, sign),
             complex[Len(complex)][1], factor, sign * complex[Len(complex)][2] * k)

\* rhses after the loop of rate_equation over the reactions rs
RECURSIVE rate_rhses(_)
rate_rhses(rs) ==
    IF rs = <<>> THEN <<>>
    ELSE add_complex(
             add_complex(rate_rhses(SubSeq(rs, 1, Len(rs) - 1)),
                         rs[Len(rs)][1], factor_of(rs[Len(rs)][1]), -1),
             rs[Len(rs)][2], factor_of(rs[Len(rs)][1]), 1)

\* CRN.rate_equation
CRN_rate_equation(rs) ==
    LET rhses == rate_rhses(rs)
        syms == sorted_keys(DOMAIN rhses)
    IN  join(<<"\n">>,
             [i \in DOMAIN syms |->
                 <<"d">> \o syms[i] \o <<"/", "d", "t", " ", "=", " ">>
                         \o total(rhses[syms[i]])])

\* parse_CRN's generator: the results of parse_equation on the lines before
\* the first one that raises (all of them when none does)
RECURSIVE parse_lines(_)
parse_lines(eqs) ==
    IF eqs = <<>> \/ parse_equation_raises(Head(eqs)) THEN <<>>
    ELSE <<parse_equation(Head(eqs))>> \o parse_lines(Tail(eqs))

\* parse_CRN over the lines that are not blank
parse_CRN_skipping_blank(eqs) ==
    LET kept == SelectSeq(eqs, LAMBDA l : strip(l) # <<>>)
        p == parse_lines(kept)
    IN  IF Len(p) = Len(kept)
        THEN [raised |-> FALSE, parsed |-> p, reactions |-> CRN_init(Flatten(p))]
        ELSE [raised |-> TRUE, parsed |-> p, reactions |-> <<>>]

\* parse_CRN: it raises at the first line parse_equation raises on, and
\* otherwise constructs the CRN of the reactions of all the lines
parse_CRN(eqs) ==
    LET p == parse_lines(eqs)
    IN  IF Len(p) = Len(eqs)
        THEN [raised |-> FALSE, parsed |-> p, reactions |-> CRN_init(Flatten(p))]
        ELSE [raised |-> TRUE, parsed |-> p, reactions |-> <<>>]

(***************************************************************************)
(* The inputs                                                              *)
(***************************************************************************)

\* the most lines an input holds
MaxLines == 2

\* the text of one side of an equation
SideTexts ==
    { <<"a">>, <<"2", "a">>, <<"a", " ", "+", " ", "b">> }

ArrowTexts == { <<" ", "-", ">", " ">>, <<" ", "<", "-", ">", " ">> }

\* well-formed lines, among them one with a species twice in a complex and
\* one with a coefficient of two digits, and lines the grammar excludes:
\* blank, without an arrow, with a term of digits only, with an empty side,
\* with an empty term, with a coefficient of 0
EquationTexts ==
    { s \o a \o d : <<s, a, d>> \in SideTexts \X ArrowTexts \X SideTexts }
    \cup { <<"a", " ", "+", " ", "a", " ", "-", ">", " ", "b">>,
           <<"1", "2", "a", " ", "-", ">", " ", "a">>,
           <<>>,
           <<" ">>,
           <<"a", " ", "-", "-", " ", "b">>,
           <<"3", " ", "-", ">", " ", "b">>,
           <<" ", "-", ">", " ", "b">>,
           <<"a", " ", "+", " ", "-", ">", " ", "b">>,
           <<"0", "a", " ", "-", ">", " ", "b">> }

Inputs == UNION {[1..n -> EquationTexts] : n \in 0..MaxLines}

NoOutput == [op |-> "none", text |-> <<>>, set |-> {}]

(***************************************************************************)
(* The state machine: an input is parsed into a CRN, or parsing raises;    *)
(* a CRN is then asked for its text, its species and its rate equation.    *)
(***************************************************************************)

Init ==
    /\ equations \in Inputs
    /\ pc = "start"
    /\ parsed = <<>>
    /\ reactions = <<>>
    /\ out = NoOutput

\* parse_CRN(equations)
ParseCRN ==
    /\ pc = "start"
    /\ LET crn == parse_CRN(equations) IN
           /\ parsed' = crn.parsed
           /\ reactions' = crn.reactions
           /\ pc' = IF crn.raised THEN "raised" ELSE "built"
    /\ UNCHANGED <<equations, out>>

\* repr(crn)
Repr ==
    /\ pc = "built"
    /\ out' = [op |-> "repr", text |-> CRN_repr(reactions), set |-> {}]
    /\ UNCHANGED <<equations, pc, parsed, reactions>>

\* crn.species()
Species ==
    /\ pc = "built"
    /\ out' = [op |-> "species", text |-> <<>>, set |-> CRN_species(reactions)]
    /\ UNCHANGED <<equations, pc, parsed, reactions>>

\* crn.rate_equation()
RateEquation ==
    /\ pc = "built"
    /\ out' = [op |-> "rate_equation", text |-> CRN_rate_equation(reactions),
               set |-> {}]
    /\ UNCHANGED <<equations, pc, parsed, reactions>>

Next == ParseCRN \/ Repr \/ Species \/ RateEquation

Spec == Init /\ [][Next]_vars

(***************************************************************************)
(* Vocabulary of the properties, defined from the stored reactions and the *)
(* rendered text, not from the operators that produce them                 *)
(***************************************************************************)

Built == pc = "built"

Rated == out.op = "rate_equation"

\* the species that occur in a Term of the stored reactions
StoredSpecies ==
    UNION {{reactions[i][1][j][1] : j \in DOMAIN reactions[i][1]} \cup
           {reactions[i][2][j][1] : j \in DOMAIN reactions[i][2]} :
               i \in DOMAIN reactions}

\* the sum of the coefficients of the Terms of species s in a complex
RECURSIVE CoeffSum(_, _)
CoeffSum(s, complex) ==
    IF complex = <<>> THEN 0
    ELSE (IF Head(complex)[1] = s THEN Head(complex)[2] ELSE 0)
             + CoeffSum(s, Tail(complex))

\* the number of Terms of species s in a complex
RECURSIVE TermCount(_, _)
TermCount(s, complex) ==
    IF complex = <<>> THEN 0
    ELSE (IF Head(complex)[1] = s THEN 1 ELSE 0) + TermCount(s, Tail(complex))

\* the number of Terms of species s in the first n stored reactions
RECURSIVE Occurrences(_, _)
Occurrences(s, n) ==
    IF n = 0 THEN 0
    ELSE Occurrences(s, n - 1) + TermCount(s, reactions[n][1])
                               + TermCount(s, reactions[n][2])

\* the factor strings of the stored reactions
StoredFactors == {factor_of(reactions[i][1]) : i \in DOMAIN reactions}

\* the net coefficient of species s under factor f in the first n reactions
RECURSIVE NetCoeff(_, _, _)
NetCoeff(s, f, n) ==
    IF n = 0 THEN 0
    ELSE NetCoeff(s, f, n - 1)
         + (IF factor_of(reactions[n][1]) = f
            THEN CoeffSum(s, reactions[n][2]) - CoeffSum(s, reactions[n][1])
            ELSE 0)

\* the factors under which species s has a non-zero net coefficient
NetFactors(s) ==
    {f \in StoredFactors : NetCoeff(s, f, Len(reactions)) # 0}

\* the stored reactions species s occurs in whose source renders as f
Origins(s, f) ==
    {i \in DOMAIN reactions :
        /\ factor_of(reactions[i][1]) = f
        /\ TermCount(s, reactions[i][1]) + TermCount(s, reactions[i][2]) > 0}

\* a < b in the order of Python 2 on str
StrLess(a, b) ==
    \E p \in 1..Len(b) :
        /\ p <= Len(a) + 1
        /\ SubSeq(a, 1, p - 1) = SubSeq(b, 1, p - 1)
        /\ p <= Len(a) => Ord[a[p]] < Ord[b[p]]

\* t < u in the order of Python on (species, n) tuples
TermLess(t, u) == StrLess(t[1], u[1]) \/ (t[1] = u[1] /\ t[2] < u[2])

\* a < b in the order of Python on tuples of (species, n) tuples
ComplexLess(a, b) ==
    \E p \in 1..Len(b) :
        /\ p <= Len(a) + 1
        /\ SubSeq(a, 1, p - 1) = SubSeq(b, 1, p - 1)
        /\ p <= Len(a) => TermLess(a[p], b[p])

\* r <= q in the order of Python on (src, dst) tuples
ReactionLeq(r, q) ==
    \/ ComplexLess(r[1], q[1])
    \/ r[1] = q[1] /\ (ComplexLess(r[2], q[2]) \/ r[2] = q[2])

\* the lines of a text
LinesOf(text) == IF text = <<>> THEN <<>> ELSE split(text, <<"\n">>)

\* the head of the line rate_equation renders for species s
LineHead(s) == <<"d">> \o s \o <<"/", "d", "t", " ", "=", " ">>

\* rate_equation has rendered a line for species s
HasLine(s) ==
    \E i \in DOMAIN LinesOf(out.text) : startswith(LinesOf(out.text)[i], LineHead(s))

\* the terms of the derivative rendered for species s
RenderedTerms(s) ==
    LET ls == LinesOf(out.text)
        i == CHOOSE i \in DOMAIN ls : startswith(ls[i], LineHead(s))
        rhs == Drop(ls[i], Len(LineHead(s)) + 1)
    IN  IF rhs = <<>> THEN <<>> ELSE split(rhs, <<" ", "+", " ">>)

\* the factor of a rendered term: the term itself, or what follows 'n*'
FactorIn(t) == IF contains(t, <<"*">>) THEN split1(t, <<"*">>)[2] ELSE t

\* sep occurs in text at position p
OccursAt(text, sep, p) ==
    /\ p + Len(sep) - 1 <= Len(text)
    /\ \A q \in DOMAIN sep : text[p + q - 1] = sep[q]

\* the line holds '->' ('<->' holds it too)
HasArrow(line) == \E p \in DOMAIN line : OccursAt(line, <<"-", ">">>, p)

\* the line holds '<->'
HasReversible(line) ==
    \E p \in DOMAIN line : OccursAt(line, <<"<", "-", ">">>, p)

\* the text is blank, or digits between blanks: it names no species
NoSpecies(text) ==
    /\ \A p \in DOMAIN text : isdigit(text[p]) \/ isspace(text[p])
    /\ \A p, r \in DOMAIN text :
           (p < r /\ isdigit(text[p]) /\ isdigit(text[r])) =>
               \A q \in p..r : isdigit(text[q])

\* the texts of the terms of a line that holds an arrow
TermTexts(line) ==
    LET sides == split1(line, IF HasReversible(line) THEN <<"<", "-", ">">>
                              ELSE <<"-", ">">>)
    IN  split(sides[1], <<"+">>) \o split(sides[2], <<"+">>)

\* the line is malformed: no arrow, or a term that names no species
Malformed(line) ==
    \/ ~HasArrow(line)
    \/ LET texts == TermTexts(line) IN \E i \in DOMAIN texts : NoSpecies(texts[i])

\* the line is blank: empty or whitespace only
Blank(line) == \A p \in DOMAIN line : isspace(line[p])

(***************************************************************************)
(* The properties                                                          *)
(***************************************************************************)

\* the consumption term the rate-constant labelling gives Reaction i (at
\* zero-based position i - 1) for a source Term of coefficient n
LabelledTerm(i, n) ==
    LET src == reactions[i][1] IN
    <<"-", "k">> \o str(i - 1) \o <<"(">>
        \o join(<<" ">>, [j \in DOMAIN src |-> pow(src[j][1], src[j][2])])
        \o <<")">> \o (IF n = 1 THEN <<>> ELSE <<"*">> \o str(n))

\* C1: mass-action consistency. For every stored Reaction i and every source
\* Term (s, n) of it, the derivative rendered for s holds the term -k_i(...)
\* (followed by *n when n # 1) whose factor lists the source species of
\* Reaction i with their coefficients as exponents.
C1_MassActionLabelled ==
    Rated =>
        \A i \in DOMAIN reactions : \A j \in DOMAIN reactions[i][1] :
            LET s == reactions[i][1][j][1]
                n == reactions[i][1][j][2]
            IN  /\ HasLine(s)
                /\ \E p \in DOMAIN RenderedTerms(s) :
                       RenderedTerms(s)[p] = LabelledTerm(i, n)

C4_ReversibilityExpansion ==
    \A i \in DOMAIN parsed :
        LET line == equations[i]
            arrow == IF HasReversible(line) THEN <<"<", "-", ">">>
                     ELSE <<"-", ">">>
            at == CHOOSE p \in DOMAIN line :
                      /\ OccursAt(line, arrow, p)
                      /\ \A q \in 1..(p - 1) : ~OccursAt(line, arrow, q)
            src == parse_complex(SubSeq(line, 1, at - 1))
            dst == parse_complex(SubSeq(line, at + Len(arrow), Len(line)))
        IN  IF HasReversible(line)
            THEN parsed[i] = <<<<src, dst>>, <<dst, src>>>>
            ELSE parsed[i] = <<<<src, dst>>>>

\* a reversible line and an irreversible line have been parsed
C4_Witness ==
    /\ Built
    /\ \E i \in DOMAIN parsed :
           HasReversible(equations[i]) /\ parsed[i][1] # parsed[i][2]
    /\ \E i \in DOMAIN parsed : ~HasReversible(equations[i])

\* C5: the stored reactions are a permutation of the reactions given to the
\* constructor, duplicates kept, in ascending order of (source, destination);
\* the network rendering has one line per stored Reaction, in that order.
C5_SortedPermutation ==
    /\ Built =>
           LET given == Flatten(parsed) IN
           /\ Len(reactions) = Len(given)
           /\ \A r \in {given[i] : i \in DOMAIN given} :
                  Cardinality({i \in DOMAIN reactions : reactions[i] = r})
                      = Cardinality({i \in DOMAIN given : given[i] = r})
           /\ \A i, j \in DOMAIN reactions :
                  i < j => ReactionLeq(reactions[i], reactions[j])
    /\ out.op = "repr" =>
           LET ls == LinesOf(out.text) IN
           /\ Len(ls) = Len(reactions)
           /\ \A i \in DOMAIN reactions : ls[i] = show_reaction(reactions[i])

\* an unsorted collection with a duplicate has been stored and rendered
C5_Witness ==
    /\ out.op = "repr"
    /\ reactions # Flatten(parsed)
    /\ \E i, j \in DOMAIN reactions : i < j /\ reactions[i] = reactions[j]
    /\ \E i, j \in DOMAIN reactions : reactions[i] # reactions[j]

\* C6: all-or-nothing parsing. When a line of the input holds no arrow, or
\* holds a term without species characters after its leading digits, parse_CRN
\* raises and no CRN exists, whatever the other lines are.
C6_AllOrNothing ==
    (pc # "start" /\ \E i \in DOMAIN equations : Malformed(equations[i])) =>
        /\ pc = "raised"
        /\ reactions = <<>>
        /\ out = NoOutput

\* parsing raised on a malformed line that follows a well-formed one
C6_Witness ==
    /\ pc = "raised"
    /\ Len(equations) = MaxLines
    /\ parsed # <<>>
    /\ Malformed(equations[Len(equations)])
    /\ HasArrow(equations[Len(equations)])

\* C7: species completeness. species() is the set of the species of the Terms
\* of the source and destination complexes of the stored reactions.
C7_SpeciesComplete ==
    out.op = "species" =>
        /\ \A s \in out.set :
               \E i \in DOMAIN reactions : \E c \in {1, 2} :
                   \E j \in DOMAIN reactions[i][c] : reactions[i][c][j][1] = s
        /\ \A i \in DOMAIN reactions : \A c \in {1, 2} :
               \A j \in DOMAIN reactions[i][c] : reactions[i][c][j][1] \in out.set

\* species() of a network one of whose species occurs in destinations only
C7_Witness ==
    /\ out.op = "species"
    /\ Cardinality(out.set) >= 2
    /\ \E s \in out.set :
           \A i \in DOMAIN reactions : TermCount(s, reactions[i][1]) = 0

\* C8: every Term of every stored Reaction has a coefficient >= 1; a line
\* with a coefficient of 0 is rejected and stores nothing.
C8_PositiveCoefficients ==
    Built =>
        \A i \in DOMAIN reactions : \A c \in {1, 2} :
            \A j \in DOMAIN reactions[i][c] : reactions[i][c][j][2] >= 1

\* what parse_CRN does with the lines: it raised, or it stored these reactions
Outcome(eqs) ==
    <<IF parse_CRN(eqs).raised THEN "raised" ELSE "built", parse_CRN(eqs).reactions>>

Rank(s, f) == 1 + Cardinality({g \in NetFactors(s) : StrLess(g, f)})

====
